---- MODULE Spec2Model ----
(***************************************************************************)
(* Model of util/exercise/src/cmd/generate.rs: the `generate` command that *)
(* scaffolds a new exercise and, when canonical data exists, generates the *)
(* test suite (property stubs followed by test functions) from the JSON    *)
(* case tree.                                                              *)
(*                                                                         *)
(* JSON values are modelled by tagged records.  A case node is             *)
(*   [ck, cases, pk, property, dk, description]                            *)
(* where ck / pk / dk say whether the key "cases" / "property" /           *)
(* "description" is absent, present with the wrong JSON type ("bad"), or   *)
(* present with the expected type ("array" / "str").  Strings that the     *)
(* code transforms (descriptions, property names) are sequences of         *)
(* one-character strings.  A generated test function (a Rust String in the *)
(* code) is the record [attrs, name, property]: its attribute lines, the   *)
(* identifier after `fn`, and the property whose stub it calls.            *)
(***************************************************************************)
EXTENDS Naturals, Sequences, FiniteSets

VARIABLES
    pc,                 \* position inside generate_exercise
    exists,             \* exercise::exercise_exists(exercise_name)
    use_maplit,         \* the flag generate_exercise is called with
    canonical,          \* result of exercise::get_canonical_data
    fs,                 \* the exercise directory, without the tests file
    tests_file,         \* tests/<exercise_name>.rs
    property_functions, \* HashMap<String, String>
    test_functions,     \* Vec<String>
    idx,                \* position of the `for case in ...` loop, line 104
    tests_result,       \* what generate_tests_from_canonical_data returned
    result,             \* what generate_exercise returned
    run,                \* "first" or "second" generation of the same data
    firstDoc            \* the tests file the first generation produced

vars == <<pc, exists, use_maplit, canonical, fs, tests_file,
          property_functions, test_functions, idx, tests_result, result,
          run, firstDoc>>

\* Largest number of case nodes in the canonical data's tree.
MaxNodes == 3

Range(s) == {s[i] : i \in DOMAIN s}

(***************************************************************************)
(* Strings                                                                 *)
(***************************************************************************)
Lower(c) ==
    CASE c = "A" -> "a"
      [] c = "B" -> "b"
      [] c = "P" -> "p"
      [] OTHER -> c

IsAlphanumeric(c) == c \in {"a", "b", "c", "p", "q", "A", "B", "P"}

\* Identifier derived from a description: lower-case words joined by "_",
\* every other non-identifier character stripped.
RECURSIVE format_exercise_description(_)
format_exercise_description(description) ==
    IF description = <<>> THEN <<>>
    ELSE LET c == Head(description)
             rest == format_exercise_description(Tail(description))
         IN  IF c = " " THEN <<"_">> \o rest
             ELSE IF IsAlphanumeric(c) THEN <<Lower(c)>> \o rest
             ELSE rest

\* Callable name of a property's stub: lower-case, non-identifier characters
\* replaced with the separator.
format_property(property) ==
    [i \in DOMAIN property |->
        IF IsAlphanumeric(property[i]) THEN Lower(property[i]) ELSE "_"]

(***************************************************************************)
(* Canonical data                                                          *)
(***************************************************************************)
Descriptions == {<<"A", " ", "b">>, <<"a", " ", "b", "!">>, <<"c">>}

Node(ck, cases, pk, property, dk, description) ==
    [ck |-> ck, cases |-> cases, pk |-> pk, property |-> property,
     dk |-> dk, description |-> description]

\* What a node may carry besides its children.
Labels ==
    \* a group: "cases" only
    {Node("array", <<>>, "absent", <<>>, "str", <<"c">>)}
    \* a node with both "cases" and "property"
    \cup {Node("array", <<>>, "str", <<"p">>, "str", <<"A", " ", "b">>)}
    \* leaves
    \cup {Node("absent", <<>>, "str", <<"p">>, "str", d) : d \in Descriptions}
    \cup {Node("absent", <<>>, "str", <<"q", "P">>, "str", <<"A", " ", "b">>)}
    \* a leaf without "description"
    \cup {Node("absent", <<>>, "str", <<"p">>, "absent", <<>>)}
    \* "property" is not a string
    \cup {Node("absent", <<>>, "bad", <<>>, "str", <<"c">>)}
    \* neither "cases" nor "property"
    \cup {Node("absent", <<>>, "absent", <<>>, "str", <<"c">>)}
    \* "cases" is not an array
    \cup {Node("bad", <<>>, "absent", <<>>, "str", <<"c">>)}

\* The sequences of n case nodes in all whose first tree has k nodes: k - 1
\* of them below its root, which is followed by a sequence of n - k nodes.
\* table[m + 1] holds the sequences of m nodes.
FirstOf(table, n, k) ==
    {<<[l EXCEPT !.cases = c]>> \o r :
         l \in {x \in Labels : k = 1 \/ x.ck = "array"},
         c \in table[k],
         r \in table[n - k + 1]}

RECURSIVE LevelUpTo(_, _, _)
LevelUpTo(table, n, k) ==
    IF k = 0 THEN {} ELSE FirstOf(table, n, k) \cup LevelUpTo(table, n, k - 1)

RECURSIVE ForestTable(_, _)
ForestTable(table, n) ==
    IF n > MaxNodes THEN table
    ELSE ForestTable(Append(table, LevelUpTo(table, n, n)), n + 1)

RECURSIVE Flatten(_)
Flatten(table) ==
    IF table = <<>> THEN {} ELSE Head(table) \cup Flatten(Tail(table))

\* Every sequence of case nodes with at most MaxNodes nodes in all.
AllForests == Flatten(ForestTable(<<{<<>>}>>, 1))

NoData == [found |-> FALSE, ck |-> "absent", cases |-> <<>>]

\* The documents exercise::get_canonical_data can return.
CanonicalDatas ==
    {[found |-> TRUE, ck |-> "array", cases |-> f] : f \in AllForests}
    \cup {[found |-> TRUE, ck |-> "absent", cases |-> <<>>],
          [found |-> TRUE, ck |-> "bad", cases |-> <<>>]}

(***************************************************************************)
(* exercise::generate_property_body, exercise::generate_test_function      *)
(***************************************************************************)
\* The stub of a property: its callable name and a body left to implement.
generate_property_body(property) ==
    [name |-> <<"process_">> \o format_property(property) \o <<"_case">>,
     body |-> "unimplemented!()"]

NoTestFunction == [attrs |-> <<>>, name |-> <<>>, property |-> <<>>]

\* generate_test_function(case, use_maplit): a function of its two arguments
\* alone.  Every test function is generated ignored; it fails on a case that
\* lacks a required field.  The flag changes only how a map literal of the
\* body is written, which the record does not hold.
generate_test_function(case, maplit) ==
    IF case.dk # "str" \/ case.pk # "str"
    THEN [ok |-> FALSE, val |-> NoTestFunction]
    ELSE [ok |-> TRUE,
          val |-> [attrs |-> <<"#[test]", "#[ignore]">>,
                   name |-> <<"test_">>
                            \o format_exercise_description(case.description),
                   property |-> case.property]]

(***************************************************************************)
(* parse_case                                                              *)
(***************************************************************************)
\* The mutable arguments of parse_case, and whether it has returned Err.
ParseState(pf, tf, err) == [pf |-> pf, tf |-> tf, err |-> err]

\* Lines 56-61 with the negation of contains_key dropped.
InsertStubIfPresent(pf, property) ==
    IF property \notin DOMAIN pf THEN pf
    ELSE [k \in DOMAIN pf \cup {property} |->
            IF k = property THEN generate_property_body(property) ELSE pf[k]]

\* Lines 56-61: insert the stub unless the key is already there.
InsertStub(pf, property) ==
    IF property \in DOMAIN pf THEN pf
    ELSE [k \in DOMAIN pf \cup {property} |->
            IF k = property THEN generate_property_body(property) ELSE pf[k]]

\* Lines 53-64: the node's own "property".
ParseProperty(case, st) ==
    IF case.pk = "absent" THEN st
    ELSE IF case.pk = "bad" THEN [st EXCEPT !.err = TRUE]
    ELSE LET pf == InsertStub(st.pf, case.property)
             tf == generate_test_function(case, use_maplit)
         IN  IF tf.ok THEN ParseState(pf, Append(st.tf, tf.val), FALSE)
             ELSE ParseState(pf, st.tf, TRUE)

RECURSIVE parse_case(_, _)
\* Lines 47-51: the loop over "cases"; `?` leaves it at the first Err.
RECURSIVE ParseSubCases(_, _)
ParseSubCases(sub_cases, st) ==
    IF sub_cases = <<>> \/ st.err THEN st
    ELSE ParseSubCases(Tail(sub_cases), parse_case(Head(sub_cases), st))

\* parse_case without lines 47-51: the sub-cases are not visited.
parse_case_flat(case, st) == ParseProperty(case, st)

\* parse_case with lines 53-64 moved before lines 47-51: the node's own
\* property first, then the sub-cases.
parse_case_node_first(case, st) ==
    LET own == ParseProperty(case, st)
    IN  IF own.err \/ case.ck = "absent" THEN own
        ELSE IF case.ck = "bad" THEN [own EXCEPT !.err = TRUE]
        ELSE ParseSubCases(case.cases, own)

\* Lines 41-67: first the sub-cases, then the node's own property.
parse_case(case, st) ==
    LET after == IF case.ck = "absent" THEN st
                 ELSE IF case.ck = "bad" THEN [st EXCEPT !.err = TRUE]
                 ELSE ParseSubCases(case.cases, st)
    IN  IF after.err THEN after ELSE ParseProperty(case, after)

(***************************************************************************)
(* The file system                                                         *)
(***************************************************************************)
NoFile == [exists |-> FALSE, maplit |-> FALSE, preamble |-> FALSE,
           header |-> FALSE, stubs |-> <<>>, tests |-> <<>>,
           placeholder |-> FALSE, formatted |-> FALSE]

\* The tests file as generate_exercise has written it by line 228.
ScaffoldTests ==
    [NoFile EXCEPT !.exists = TRUE, !.maplit = use_maplit, !.preamble = TRUE]

\* The tests file of an exercise that is already there.
ExistingTests ==
    [NoFile EXCEPT !.exists = TRUE, !.preamble = TRUE, !.placeholder = TRUE]

NoExercise == [crate |-> FALSE, maplit |-> FALSE, gitignore |-> FALSE,
               tests_dir |-> FALSE, example |-> FALSE, version |-> FALSE,
               meta |-> FALSE, readme |-> FALSE]

\* An exercise that is already there.
ExistingExercise == [crate |-> TRUE, maplit |-> FALSE, gitignore |-> TRUE,
                     tests_dir |-> TRUE, example |-> TRUE, version |-> FALSE,
                     meta |-> TRUE, readme |-> TRUE]

\* The orders in which a HashMap may yield its values.
IterationOrders(map) ==
    {o \in [1..Cardinality(DOMAIN map) -> DOMAIN map] : Range(o) = DOMAIN map}

(***************************************************************************)
(* generate_exercise                                                       *)
(***************************************************************************)
Init ==
    /\ pc = "start"
    /\ exists \in BOOLEAN
    /\ use_maplit \in BOOLEAN
    /\ canonical = NoData
    /\ fs = IF exists THEN ExistingExercise ELSE NoExercise
    /\ tests_file = IF exists THEN ExistingTests ELSE NoFile
    /\ property_functions = <<>>
    /\ test_functions = <<>>
    /\ idx = 1
    /\ tests_result = "none"
    /\ result = "none"
    /\ run = "first"
    /\ firstDoc = NoFile

\* `?` on a failed I/O step of generate_exercise.
Fail(r) ==
    /\ pc' = "done"
    /\ result' = r

\* `?` on a failed step of generate_tests_from_canonical_data, line 241.
FailTests(r) ==
    /\ tests_result' = r
    /\ Fail(r)

\* Lines 177-179 without the early return.
CheckExistsIgnored ==
    /\ pc = "start"
    /\ pc' = "cargo_new"
    /\ UNCHANGED <<exists, use_maplit, canonical, fs, tests_file,
                   property_functions, test_functions, idx, tests_result,
                   result, run, firstDoc>>

\* Lines 177-179.
CheckExists ==
    /\ pc = "start"
    /\ IF exists THEN Fail("err_exists")
       ELSE pc' = "cargo_new" /\ UNCHANGED result
    /\ UNCHANGED <<exists, use_maplit, canonical, fs, tests_file,
                   property_functions, test_functions, idx, tests_result, run,
                   firstDoc>>

\* A step of generate_exercise that changes the exercise directory only:
\* on success fs becomes `after` and control moves to `next`.
DirectoryStep(at, after, next) ==
    /\ pc = at
    /\ \E ok \in BOOLEAN :
         IF ok THEN fs' = after /\ pc' = next /\ UNCHANGED result
         ELSE Fail("err_io") /\ UNCHANGED fs
    /\ UNCHANGED <<exists, use_maplit, canonical, tests_file,
                   property_functions, test_functions, idx, tests_result, run,
                   firstDoc>>

\* Lines 181-200.
CargoNew ==
    DirectoryStep("cargo_new", [fs EXCEPT !.crate = TRUE], "gitignore")

\* Line 202.
WriteGitignore ==
    DirectoryStep("gitignore", [fs EXCEPT !.gitignore = TRUE], "maplit")

\* Lines 204-210.
AddMaplit ==
    /\ pc = "maplit"
    /\ \E ok \in BOOLEAN :
         IF ok \/ ~use_maplit
         THEN /\ fs' = [fs EXCEPT !.maplit = use_maplit]
              /\ pc' = "tests_dir"
              /\ UNCHANGED result
         ELSE Fail("err_io") /\ UNCHANGED fs
    /\ UNCHANGED <<exists, use_maplit, canonical, tests_file,
                   property_functions, test_functions, idx, tests_result, run,
                   firstDoc>>

\* Line 212.
CreateTestsDir ==
    DirectoryStep("tests_dir", [fs EXCEPT !.tests_dir = TRUE], "test_file")

\* Lines 214-228: the tests file is created, then written up to its `use`.
CreateTestFile ==
    /\ pc = "test_file"
    /\ \E written \in {"nothing", "created", "macro_use", "use"} :
         /\ written = "macro_use" => use_maplit
         /\ tests_file' =
              [NoFile EXCEPT
                 !.exists = written # "nothing",
                 !.maplit = use_maplit /\ written \in {"macro_use", "use"},
                 !.preamble = (written = "use")]
         /\ IF written = "use" THEN pc' = "example" /\ UNCHANGED result
            ELSE Fail("err_io")
    /\ UNCHANGED <<exists, use_maplit, canonical, fs, property_functions,
                   test_functions, idx, tests_result, run, firstDoc>>

\* Line 230.
WriteExample ==
    DirectoryStep("example", [fs EXCEPT !.example = TRUE], "get_data")

\* Line 232: a second generation reads the data the first one read.
GetCanonicalData ==
    /\ pc = "get_data"
    /\ \E data \in CanonicalDatas \cup {NoData} :
         /\ run = "second" => data = canonical
         /\ canonical' = data
         /\ pc' = IF data.found THEN "update_version" ELSE "template"
    /\ UNCHANGED <<exists, use_maplit, fs, tests_file, property_functions,
                   test_functions, idx, tests_result, result, run, firstDoc>>

\* Lines 243-250.
WriteTemplate ==
    /\ pc = "template"
    /\ \E ok \in BOOLEAN :
         IF ok THEN /\ tests_file' = [tests_file EXCEPT !.placeholder = TRUE]
                    /\ pc' = "meta"
                    /\ UNCHANGED result
         ELSE Fail("err_io") /\ UNCHANGED tests_file
    /\ UNCHANGED <<exists, use_maplit, canonical, fs, property_functions,
                   test_functions, idx, tests_result, run, firstDoc>>

(***************************************************************************)
(* generate_tests_from_canonical_data                                      *)
(***************************************************************************)
\* Line 76.
UpdateCargoTomlVersion ==
    /\ pc = "update_version"
    /\ \E ok \in BOOLEAN :
         IF ok THEN /\ fs' = [fs EXCEPT !.version = TRUE]
                    /\ pc' = "write_header"
                    /\ UNCHANGED <<tests_result, result>>
         ELSE FailTests("err_io") /\ UNCHANGED fs
    /\ UNCHANGED <<exists, use_maplit, canonical, tests_file,
                   property_functions, test_functions, idx, run, firstDoc>>

\* Lines 82-102: the header and the present content replace the tests file.
WriteHeader ==
    /\ pc = "write_header"
    /\ \E ok \in BOOLEAN :
         IF ok THEN /\ tests_file' = [tests_file EXCEPT !.header = TRUE]
                    /\ property_functions' = <<>>
                    /\ test_functions' = <<>>
                    /\ pc' = "get_cases"
                    /\ UNCHANGED <<tests_result, result>>
         ELSE /\ FailTests("err_io")
              /\ UNCHANGED <<tests_file, property_functions, test_functions>>
    /\ UNCHANGED <<exists, use_maplit, canonical, fs, idx, run, firstDoc>>

\* Line 104: get!(canonical_data, "cases", as_array).
GetCases ==
    /\ pc = "get_cases"
    /\ IF canonical.ck = "array"
       THEN pc' = "parse" /\ idx' = 1 /\ UNCHANGED <<tests_result, result>>
       ELSE FailTests("err_malformed") /\ UNCHANGED idx
    /\ UNCHANGED <<exists, use_maplit, canonical, fs, tests_file,
                   property_functions, test_functions, run, firstDoc>>

\* Lines 104-111: one turn of the loop.
ParseTopCase ==
    /\ pc = "parse"
    /\ idx <= Len(canonical.cases)
    /\ LET st == parse_case(canonical.cases[idx],
                            ParseState(property_functions, test_functions,
                                       FALSE))
       IN  /\ property_functions' = st.pf
           /\ test_functions' = st.tf
           /\ IF st.err
              THEN FailTests("err_malformed") /\ UNCHANGED idx
              ELSE /\ idx' = idx + 1
                   /\ UNCHANGED <<pc, tests_result, result>>
    /\ UNCHANGED <<exists, use_maplit, canonical, fs, tests_file, run,
                   firstDoc>>

\* test_functions.remove(0).replace("#[ignore]\n", "")
RemoveIgnore(test_function) ==
    [test_function EXCEPT
        !.attrs = SelectSeq(@, LAMBDA a : a # "#[ignore]")]

\* Lines 113-117 taking the last test function instead of the first.
ActivateLast(tf) ==
    IF tf # <<>>
    THEN SubSeq(tf, 1, Len(tf) - 1) \o <<RemoveIgnore(tf[Len(tf)])>>
    ELSE tf

\* Lines 114-116 without the is_empty guard of line 113, the missing first
\* element defaulted.
ActivateFirstUnguarded(tf) ==
    IF tf # <<>> THEN <<RemoveIgnore(Head(tf))>> \o Tail(tf)
    ELSE <<RemoveIgnore(NoTestFunction)>>

\* Lines 113-117.
ActivateFirst(tf) ==
    IF tf # <<>> THEN <<RemoveIgnore(Head(tf))>> \o Tail(tf) ELSE tf

\* Lines 113-119: after the loop, up to opening the file to append.
OpenAppend ==
    /\ pc = "parse"
    /\ idx > Len(canonical.cases)
    /\ test_functions' = ActivateFirst(test_functions)
    /\ \E ok \in BOOLEAN :
         IF ok THEN pc' = "write_stubs" /\ UNCHANGED <<tests_result, result>>
         ELSE FailTests("err_io")
    /\ UNCHANGED <<exists, use_maplit, canonical, fs, tests_file,
                   property_functions, idx, run, firstDoc>>

\* Lines 121-123: property_functions.values(), in the map's order; a
\* write_all that fails leaves the stubs written before it.
WriteStubs ==
    /\ pc = "write_stubs"
    /\ \E order \in IterationOrders(property_functions) :
         \E written \in 0..Len(order) :
            /\ tests_file' = [tests_file EXCEPT
                 !.stubs = @ \o [i \in 1..written |->
                                    property_functions[order[i]]]]
            /\ IF written = Len(order)
               THEN pc' = "write_tests" /\ UNCHANGED <<tests_result, result>>
               ELSE FailTests("err_io")
    /\ UNCHANGED <<exists, use_maplit, canonical, fs, property_functions,
                   test_functions, idx, run, firstDoc>>

\* Line 125.
WriteTests ==
    /\ pc = "write_tests"
    /\ \E ok \in BOOLEAN :
         IF ok THEN /\ tests_file' = [tests_file EXCEPT
                                         !.tests = @ \o test_functions]
                    /\ pc' = "rustfmt"
                    /\ UNCHANGED <<tests_result, result>>
         ELSE FailTests("err_io") /\ UNCHANGED tests_file
    /\ UNCHANGED <<exists, use_maplit, canonical, fs, property_functions,
                   test_functions, idx, run, firstDoc>>

\* Lines 127-129.
Rustfmt ==
    /\ pc = "rustfmt"
    /\ \E ok \in BOOLEAN :
         IF ok THEN /\ tests_file' = [tests_file EXCEPT !.formatted = TRUE]
                    /\ tests_result' = "ok"
                    /\ pc' = "meta"
                    /\ UNCHANGED result
         ELSE FailTests("err_io") /\ UNCHANGED tests_file
    /\ UNCHANGED <<exists, use_maplit, canonical, fs, property_functions,
                   test_functions, idx, run, firstDoc>>

(***************************************************************************)
(* generate_meta, generate_readme                                          *)
(***************************************************************************)
\* Lines 19-39 and 253: .meta is filled with the defaults the problem
\* specification does not provide.
GenerateMeta ==
    /\ pc = "meta"
    /\ \E ok \in BOOLEAN :
         IF ok THEN /\ fs' = [fs EXCEPT !.meta = TRUE]
                    /\ pc' = "readme"
                    /\ UNCHANGED result
         ELSE Fail("err_io") /\ UNCHANGED fs
    /\ UNCHANGED <<exists, use_maplit, canonical, tests_file,
                   property_functions, test_functions, idx, tests_result, run,
                   firstDoc>>

\* Lines 133-173 and 254-256.
GenerateReadme ==
    /\ pc = "readme"
    /\ \E ok \in BOOLEAN :
         IF ok THEN /\ fs' = [fs EXCEPT !.readme = TRUE]
                    /\ pc' = "done"
                    /\ result' = "ok"
         ELSE Fail("err_io") /\ UNCHANGED fs
    /\ UNCHANGED <<exists, use_maplit, canonical, tests_file,
                   property_functions, test_functions, idx, tests_result, run,
                   firstDoc>>

\* The same canonical data generated once more, into a fresh directory.
GenerateAgain ==
    /\ pc = "done"
    /\ result = "ok"
    /\ tests_result = "ok"
    /\ run = "first"
    /\ run' = "second"
    /\ firstDoc' = tests_file
    /\ pc' = "start"
    /\ fs' = NoExercise
    /\ tests_file' = NoFile
    /\ property_functions' = <<>>
    /\ test_functions' = <<>>
    /\ idx' = 1
    /\ tests_result' = "none"
    /\ result' = "none"
    /\ UNCHANGED <<exists, use_maplit, canonical>>

Next ==
    \/ CheckExists
    \/ CargoNew
    \/ WriteGitignore
    \/ AddMaplit
    \/ CreateTestsDir
    \/ CreateTestFile
    \/ WriteExample
    \/ GetCanonicalData
    \/ WriteTemplate
    \/ UpdateCargoTomlVersion
    \/ WriteHeader
    \/ GetCases
    \/ ParseTopCase
    \/ OpenAppend
    \/ WriteStubs
    \/ WriteTests
    \/ Rustfmt
    \/ GenerateMeta
    \/ GenerateReadme

Spec == Init /\ [][Next]_vars

NextTwice == Next \/ GenerateAgain

SpecTwice == Init /\ [][NextTwice]_vars

(***************************************************************************)
(* The case tree as the specification describes it                         *)
(***************************************************************************)
IsLeaf(case) == case.ck = "absent" /\ case.pk = "str" /\ case.dk = "str"

IsGroup(case) == case.ck = "array" /\ case.pk = "absent"

\* Every node is a group or a leaf.
RECURSIVE ValidForest(_)
ValidForest(cases) ==
    \A i \in DOMAIN cases :
        \/ IsLeaf(cases[i])
        \/ IsGroup(cases[i]) /\ ValidForest(cases[i].cases)

\* The leaves in document order.
RECURSIVE Leaves(_)
Leaves(cases) ==
    IF cases = <<>> THEN <<>>
    ELSE LET case == Head(cases)
         IN  (IF IsLeaf(case) THEN <<case>> ELSE <<>>)
             \o (IF case.ck = "array" THEN Leaves(case.cases) ELSE <<>>)
             \o Leaves(Tail(cases))

\* The nodes that carry a property, each before its descendants.
RECURSIVE PreOrder(_)
PreOrder(cases) ==
    IF cases = <<>> THEN <<>>
    ELSE LET case == Head(cases)
         IN  (IF case.pk = "str" THEN <<case>> ELSE <<>>)
             \o (IF case.ck = "array" THEN PreOrder(case.cases) ELSE <<>>)
             \o PreOrder(Tail(cases))

\* The nodes that carry a property, each after its descendants.
RECURSIVE PostOrder(_)
PostOrder(cases) ==
    IF cases = <<>> THEN <<>>
    ELSE LET case == Head(cases)
         IN  (IF case.ck = "array" THEN PostOrder(case.cases) ELSE <<>>)
             \o (IF case.pk = "str" THEN <<case>> ELSE <<>>)
             \o PostOrder(Tail(cases))

\* A node the specification calls malformed is somewhere in the tree.
RECURSIVE HasMalformed(_)
HasMalformed(cases) ==
    \E i \in DOMAIN cases :
        \/ cases[i].ck = "bad"
        \/ cases[i].pk = "bad"
        \/ cases[i].ck = "absent" /\ cases[i].pk = "absent"
        \/ cases[i].ck = "array" /\ HasMalformed(cases[i].cases)

PropertiesOf(leaves) == {leaves[i].property : i \in DOMAIN leaves}

Active(test_function) == "#[ignore]" \notin Range(test_function.attrs)

\* What identifies a test function: its identifier and the stub it calls.
Signature(test_function) == <<test_function.name, test_function.property>>

SignatureOf(case) == Signature(generate_test_function(case, use_maplit).val)

Signatures(s, Of(_)) == [i \in DOMAIN s |-> Of(s[i])]

ValidData == canonical.found /\ canonical.ck = "array"
             /\ ValidForest(canonical.cases)

\* generate_tests_from_canonical_data has returned Ok(()).
Generated == tests_result = "ok"

(***************************************************************************)
(* Claims                                                                  *)
(***************************************************************************)
\* C1: for a valid case tree with at least one leaf, once
\* generate_tests_from_canonical_data has finished, the first test function of
\* the tests file carries no #[ignore] and is the one generated from the first
\* leaf in document order; every other test function carries #[ignore].
C1_SingleActiveFirstLeaf ==
    (Generated /\ ValidData /\ Leaves(canonical.cases) # <<>>) =>
        LET tests == tests_file.tests
            first == Head(Leaves(canonical.cases))
        IN  /\ tests # <<>>
            /\ Active(tests[1])
            /\ Signature(tests[1]) = SignatureOf(first)
            /\ \A i \in DOMAIN tests : i > 1 => ~Active(tests[i])

\* A finished run on a valid tree whose first leaf is nested in a group and is
\* followed by another leaf.
C1_Witness ==
    /\ Generated /\ ValidData
    /\ Len(Leaves(canonical.cases)) >= 2
    /\ IsGroup(canonical.cases[1])
    /\ Active(tests_file.tests[1])
    /\ ~Active(tests_file.tests[2])

\* C2: two generations from the same valid case tree write the same tests
\* file, the order of the property stubs included.
C2_SecondRunIdentical ==
    (run = "second" /\ Generated /\ ValidData) => tests_file = firstDoc

\* C3: for a valid case tree, a stub exists for exactly the properties of the
\* leaves parsed so far, each with the body generated for it, and the tests
\* file of a finished run holds one stub per distinct property of the leaves.
C3_OneStubPerProperty ==
    ValidData =>
        /\ pc = "parse" =>
              LET seen == PropertiesOf(Leaves(
                              SubSeq(canonical.cases, 1, idx - 1)))
              IN  /\ DOMAIN property_functions = seen
                  /\ \A p \in seen :
                        property_functions[p] = generate_property_body(p)
        /\ Generated =>
              LET properties == PropertiesOf(Leaves(canonical.cases))
                  stubs == tests_file.stubs
              IN  /\ Len(stubs) = Cardinality(properties)
                  /\ Range(stubs)
                       = {generate_property_body(p) : p \in properties}

\* A finished run on a valid tree with three leaves and two properties.
C3_Witness ==
    /\ Generated /\ ValidData
    /\ Len(Leaves(canonical.cases)) = 3
    /\ Cardinality(PropertiesOf(Leaves(canonical.cases))) = 2
    /\ Len(tests_file.stubs) = 2

\* C4: for a valid case tree, as many test functions are generated and
\* written as the tree has leaves, at every depth; groups add none.
C4_OneTestPerLeaf ==
    ValidData =>
        /\ pc = "parse" =>
              Len(test_functions)
                = Len(Leaves(SubSeq(canonical.cases, 1, idx - 1)))
        /\ Generated =>
              /\ Len(test_functions) = Len(Leaves(canonical.cases))
              /\ Len(tests_file.tests) = Len(Leaves(canonical.cases))

\* A finished run on a valid tree with a leaf inside a group and a leaf at
\* the top level.
C4_Witness ==
    /\ Generated /\ ValidData
    /\ Len(canonical.cases) = 2
    /\ IsGroup(canonical.cases[1])
    /\ Len(canonical.cases[1].cases) = 1
    /\ IsLeaf(canonical.cases[2])
    /\ Len(tests_file.tests) = 2

\* C5: no two test functions of the tests file of a finished run on a valid
\* case tree have the same identifier.
C5_NamesUnique ==
    (Generated /\ ValidData) =>
        \A i, j \in DOMAIN tests_file.tests :
            i # j => tests_file.tests[i].name # tests_file.tests[j].name

\* C6: when a node of the tree has a "cases" that is no array, a "property"
\* that is no string, or neither "cases" nor "property",
\* generate_tests_from_canonical_data does not return Ok(()).
C6_MalformedRejected ==
    (canonical.found /\ canonical.ck = "array"
        /\ HasMalformed(canonical.cases)) => ~Generated

\* C7: when generate_tests_from_canonical_data returns the error of a
\* malformed case, the tests file is as it was when the function was called.
C7_NoPartialDocument ==
    tests_result = "err_malformed" => tests_file = ScaffoldTests

C9_EmptyTreeHeaderOnly ==
    (ValidData /\ Leaves(canonical.cases) = <<>>) =>
        /\ tests_result # "err_malformed"
        /\ tests_file.stubs = <<>>
        /\ tests_file.tests = <<>>
        /\ Generated => tests_file.header

\* generate_exercise has returned Ok(()) for an empty "cases" array.
C9_Witness ==
    /\ Generated /\ ValidData
    /\ canonical.cases = <<>>
    /\ tests_file.header
    /\ pc = "done" /\ result = "ok"

\* C10: when the exercise exists already, generate_exercise returns its error
\* with nothing of the exercise created or changed.
C10_ExistingExerciseUntouched ==
    exists =>
        /\ fs = ExistingExercise
        /\ tests_file = ExistingTests
        /\ pc \in {"start", "done"}
        /\ pc = "done" => result = "err_exists"

\* generate_exercise has returned for an exercise that exists.
C10_Witness == exists /\ pc = "done" /\ result = "err_exists"

====
